---- MODULE Spec2Model ----
(***************************************************************************)
(* Model of class BMPImageEditor (src/BMPImageEditor.cpp): the two packed  *)
(* header structures held as raw bytes, the pixel matrix, the fileWasRead  *)
(* flag, and the public methods read, drawCross and save called in any     *)
(* order on one editor object.                                             *)
(*                                                                         *)
(* Platform assumptions: little-endian host (the structures are filled by  *)
(* reinterpreting file bytes) and streams that do not translate bytes      *)
(* (POSIX; the code opens both streams without std::ios::binary).          *)
(*                                                                         *)
(* Undefined behaviour (indexing a vector out of range, members read       *)
(* before they were ever written) is a nondeterministic choice: the        *)
(* process aborts, or the access goes astray (a stray write leaves the     *)
(* vector as it was, a stray read yields an arbitrary value).              *)
(***************************************************************************)
EXTENDS Integers, Sequences, FiniteSets, TLC

VARIABLES
    file_header,   \* the 14 bytes of member file_header (packed struct)
    info_block,    \* the 40 bytes of member info_block (packed struct)
    pixels,        \* member pixels: sequence of rows, each a sequence of uint32
    fileWasRead,   \* member fileWasRead
    alive,         \* FALSE once the process was aborted by undefined behaviour
    calls,         \* number of method calls made so far
    lastOp,        \* the method called last: "none", "read", "drawCross", "save"
    result,        \* how the last call ended: "ok", "aborted" or the exception
    src,           \* the source handed to the last read
    sink,          \* the kind of sink handed to the last save ("none" before any)
    out            \* the bytes the last save left in its sink

vars == <<file_header, info_block, pixels, fileWasRead, alive, calls,
          lastOp, result, src, sink, out>>

editor == <<file_header, info_block, pixels, fileWasRead>>

----------------------------------------------------------------------------
(* Bounds *)

MaxDim == 2         \* widths and heights of the well-formed sources: 1..MaxDim
MaxCalls == 4       \* method calls on one editor object
SinkCapacity == 58  \* bytes a sink that runs full accepts

----------------------------------------------------------------------------
(* Bytes and little-endian fields *)

Min(a, b) == IF a < b THEN a ELSE b

LE16(n) == <<n % 256, (n \div 256) % 256>>

LE32(n) == <<n % 256, (n \div 256) % 256, (n \div 65536) % 256, (n \div 16777216) % 256>>

U16(mem, off) == mem[off + 1] + 256 * mem[off + 2]

U32(mem, off) == mem[off + 1] + 256 * mem[off + 2] + 65536 * mem[off + 3] + 16777216 * mem[off + 4]

SizeOfFileHeader == 14

SizeOfInfoBlock == 40

type_of_file(fh) == U16(fh, 0)

offset_to_pixel_data(fh) == U32(fh, 10)

width(ib) == U32(ib, 4)

height(ib) == U32(ib, 8)

color_depth_in_bits(ib) == U16(ib, 14)

type_of_compression(ib) == U32(ib, 16)

----------------------------------------------------------------------------
(* Stream primitives *)

\* istream::read(buf, n) at position pos: the bytes actually extracted
\* (fewer than n sets failbit).
StreamRead(stream, pos, n) == SubSeq(stream, pos + 1, Min(pos + n, Len(stream)))

\* The extracted bytes land at the start of the destination object; the rest
\* of the object keeps what it held.
Overlay(old, got) == [i \in 1..Len(old) |-> IF i <= Len(got) THEN got[i] ELSE old[i]]

\* One-byte read into a variable initialised to 0: past the end of the stream
\* the read fails and the variable keeps 0 (and so does every later read).
ByteAt(stream, pos) == IF pos < Len(stream) THEN stream[pos + 1] ELSE 0

----------------------------------------------------------------------------
(* Colour packing and row sizes *)

PackColor(blue, green, red) == blue * 65536 + green * 256 + red

BlueOf(p) == (p \div 65536) % 256

GreenOf(p) == (p \div 256) % 256

RedOf(p) == p % 256

\* read: (width * bytes_per_pixel + 3) & ~3
RowSize(w, bpp) == ((w * bpp + 3) \div 4) * 4

\* save: ((width * color_depth_in_bits + 31) / 32) * 4
RowStride(w, depth) == ((w * depth + 31) \div 32) * 4

----------------------------------------------------------------------------
(* Sources: the files read may be handed.  A source is a record: whether it
   can be opened, and its bytes. *)

\* The k-th (0-based) colour byte of a source's pixel data: all distinct.
PixelByte(k) == ((k + 1) * 37) % 256

\* struct BMPFileHeader, as laid out on disk.
FileHeaderBytes(magic, size, offset) == magic \o LE32(size) \o LE16(0) \o LE16(0) \o LE32(offset)

\* struct BMPFileInfoBlock, as laid out on disk.
InfoBlockBytes(w, h, depth, comp, imgSize) ==
    LE32(40) \o LE32(w) \o LE32(h) \o LE16(1) \o LE16(depth) \o LE32(comp)
        \o LE32(imgSize) \o LE32(2835) \o LE32(2835) \o LE32(0) \o LE32(0)

\* Bytes of one row on disk: 3 per pixel, then padding to a multiple of 4.
DiskStride(w) == 4 * ((3 * w + 3) \div 4)

\* Pixel data: h rows bottom-up, BGR triples then padding bytes of value pad.
PixelData(w, h, pad) ==
    [k \in 1..(DiskStride(w) * h) |->
        LET d == (k - 1) \div DiskStride(w)
            i == (k - 1) % DiskStride(w)
        IN  IF i < 3 * w THEN PixelByte(d * 3 * w + i) ELSE pad]

\* A whole file: headers, gap bytes before the pixel data, pixel data.
BmpBytes(magic, w, h, depth, comp, gap, pad) ==
    FileHeaderBytes(magic, 54 + gap + DiskStride(w) * h, 54 + gap)
        \o InfoBlockBytes(w, h, depth, comp, DiskStride(w) * h)
        \o [i \in 1..gap |-> 238]
        \o PixelData(w, h, pad)

File(bytes) == [exists |-> TRUE, bytes |-> bytes]

Missing == [exists |-> FALSE, bytes |-> <<>>]

BM == <<66, 77>>

MB == <<77, 66>>

Truncated(bytes, n) == SubSeq(bytes, 1, n)

\* Well-formed 24-bit sources of every size in the bounds.
PlainSources == {File(BmpBytes(BM, w, h, 24, 0, 0, 0)) : w \in 1..MaxDim, h \in 1..MaxDim}

\* Well-formed, with one byte of other data between the headers and the pixels.
GapSource == File(BmpBytes(BM, 2, 2, 24, 0, 1, 0))

\* Padding bytes that are not zero.
DirtyPadSource == File(BmpBytes(BM, 1, 2, 24, 0, 0, 204))

WrongMagicSource == File(BmpBytes(MB, 1, 2, 24, 0, 0, 0))

\* Wrong magic, file header complete, info block cut short.
WrongMagicShortSource == File(Truncated(BmpBytes(MB, 1, 2, 24, 0, 0, 0), 20))

Depth16Source == File(BmpBytes(BM, 1, 2, 16, 0, 0, 0))

CompressedSource == File(BmpBytes(BM, 2, 1, 24, 1, 0, 0))

ShortHeaderSource == File(Truncated(BmpBytes(BM, 2, 1, 24, 0, 0, 0), 7))

\* Headers complete, pixel data cut in the middle of the second pixel.
TruncatedPixelsSource == File(Truncated(BmpBytes(BM, 2, 2, 24, 0, 0, 0), 54 + 4))

Sources ==
    PlainSources \cup
    {Missing, GapSource, DirtyPadSource, WrongMagicSource, WrongMagicShortSource,
     Depth16Source, CompressedSource, ShortHeaderSource, TruncatedPixelsSource}

----------------------------------------------------------------------------
(* Initial state: BMPImageEditor object; *)

Zeros(n) == [i \in 1..n |-> 0]

\* file_header and info_block have no initialiser: their bytes are
\* indeterminate.  Two representatives: all zero, and bytes that look like
\* the headers of a 1x1 image.
Indeterminate ==
    {<<Zeros(SizeOfFileHeader), Zeros(SizeOfInfoBlock)>>,
     <<FileHeaderBytes(BM, 58, 54), InfoBlockBytes(1, 1, 24, 0, 4)>>}

\* What a stray read of memory outside a vector may yield.
Garbage == {0, 11259375}

Colors == {<<0, 0, 0>>, <<0, 165, 255>>}

Sinks == {"good", "unopenable", "full"}

Init ==
    /\ \E m \in Indeterminate : file_header = m[1] /\ info_block = m[2]
    /\ pixels = <<>>
    /\ fileWasRead = FALSE
    /\ alive = TRUE
    /\ calls = 0
    /\ lastOp = "none"
    /\ result = "ok"
    /\ src = Missing
    /\ sink = "none"
    /\ out = <<>>

----------------------------------------------------------------------------
(* read *)

\* HeaderError with the signature compared in the wrong byte order.
HeaderErrorMagicSwapped(fh, ib) ==
    IF type_of_file(fh) # 16973 THEN "NotABmpFile"
    ELSE IF color_depth_in_bits(ib) # 24 THEN "UnsupportedColorDepth"
    ELSE "none"

\* The checks made once both headers are in memory.
HeaderError(fh, ib) ==
    IF type_of_file(fh) # 19778 THEN "NotABmpFile"
    ELSE IF color_depth_in_bits(ib) # 24 THEN "UnsupportedColorDepth"
    ELSE "none"

\* pixels.resize(height, std::vector<uint32_t>(width)): rows already there
\* keep their length, only new rows get width cells.
Resized(px, h, w) == [r \in 1..h |-> IF r <= Len(px) THEN px[r] ELSE Zeros(w)]

\* The colour read for column x of disk row d (both 0-based): three one-byte
\* reads at the position the loops have reached.
ColorRead(stream, offset, w, bpp, d, x) ==
    LET pos == offset + d * RowSize(w, bpp) + 3 * x
    IN  PackColor(ByteAt(stream, pos), ByteAt(stream, pos + 1), ByteAt(stream, pos + 2))

\* The pixel loops: disk row y goes to row_index = height - y - 1.  Cells past
\* the end of a row vector are not part of the matrix.
Filled(grid, stream, offset, w, h, bpp) ==
    [r \in 1..Len(grid) |->
        [x \in 1..Len(grid[r]) |->
            IF x <= w THEN ColorRead(stream, offset, w, bpp, h - r, x - 1)
            ELSE grid[r][x]]]

\* pixels[row_index][x] with x outside the row: undefined behaviour.
ReadStrays(grid, w) == \E r \in 1..Len(grid) : Len(grid[r]) < w

Aborted ==
    /\ alive' = FALSE
    /\ result' = "aborted"

Read(s) ==
    /\ alive
    /\ calls < MaxCalls
    /\ calls' = calls + 1
    /\ lastOp' = "read"
    /\ src' = s
    /\ UNCHANGED <<sink, out>>
    /\ IF ~s.exists
       THEN /\ result' = "IoOpenError"
            /\ UNCHANGED <<editor, alive>>
       ELSE
        LET got1 == StreamRead(s.bytes, 0, SizeOfFileHeader)
            fh == Overlay(file_header, got1)
            got2 == StreamRead(s.bytes, SizeOfFileHeader, SizeOfInfoBlock)
            ib == Overlay(info_block, got2)
        IN  IF Len(got1) < SizeOfFileHeader
            THEN /\ file_header' = fh
                 /\ result' = "ReadError"
                 /\ UNCHANGED <<info_block, pixels, fileWasRead, alive>>
            ELSE IF Len(got2) < SizeOfInfoBlock
            THEN /\ file_header' = fh
                 /\ info_block' = ib
                 /\ result' = "ReadError"
                 /\ UNCHANGED <<pixels, fileWasRead, alive>>
            ELSE IF HeaderError(fh, ib) # "none"
            THEN /\ file_header' = fh
                 /\ info_block' = ib
                 /\ result' = HeaderError(fh, ib)
                 /\ UNCHANGED <<pixels, fileWasRead, alive>>
            ELSE
             LET w == width(ib)
                 h == height(ib)
                 bpp == color_depth_in_bits(ib) \div 8
                 grid == Resized(pixels, h, w)
                 filled == Filled(grid, s.bytes, offset_to_pixel_data(fh), w, h, bpp)
             IN  /\ file_header' = fh
                 /\ info_block' = ib
                 /\ pixels' = filled
                 /\ \/ /\ ReadStrays(grid, w)
                       /\ Aborted
                       /\ UNCHANGED fileWasRead
                    \/ /\ fileWasRead' = TRUE
                       /\ result' = "ok"
                       /\ UNCHANGED alive

\* read of the file the last save left behind.
ReadSaved ==
    /\ sink # "none"
    /\ Read(IF sink = "unopenable" THEN Missing ELSE File(out))

----------------------------------------------------------------------------
(* drawCross *)

\* pixels[i][i] or pixels[i][width - i - 1] outside the matrix.
CrossStrays(px, w, h) ==
    \E i \in 1..Min(h, w) :
        \/ i > Len(px)
        \/ i > Len(px[i])
        \/ w - i + 1 > Len(px[i])

Crossed(px, w, h, color) ==
    [r \in 1..Len(px) |->
        [x \in 1..Len(px[r]) |->
            IF r <= Min(h, w) /\ (x = r \/ x = w - r + 1) THEN color ELSE px[r][x]]]

DrawCross(blue, green, red) ==
    /\ alive
    /\ calls < MaxCalls
    /\ calls' = calls + 1
    /\ lastOp' = "drawCross"
    /\ UNCHANGED <<file_header, info_block, fileWasRead, src, sink, out>>
    /\ IF ~fileWasRead
       THEN /\ result' = "InvalidState"
            /\ UNCHANGED <<pixels, alive>>
       ELSE /\ pixels' = Crossed(pixels, width(info_block), height(info_block),
                                 PackColor(blue, green, red))
            /\ \/ /\ CrossStrays(pixels, width(info_block), height(info_block))
                  /\ Aborted
               \/ /\ result' = "ok"
                  /\ UNCHANGED alive

----------------------------------------------------------------------------
(* save *)

\* pixels[y][x] outside the matrix.
SaveStrays(px, w, h) ==
    /\ h > 0
    /\ w > 0
    /\ (Len(px) < h \/ \E r \in 1..h : Len(px[r]) < w)

\* pixels[y][x] (1-based r, x); g is what a stray read yields.
Cell(px, r, x, g) == IF r <= Len(px) /\ x <= Len(px[r]) THEN px[r][x] ELSE g

\* Byte i (0-based) of row_data for matrix row r: blue, green, red of each
\* pixel, then zeros up to row_stride.
RowByte(px, w, r, i, g) ==
    IF i >= 3 * w THEN 0
    ELSE LET p == Cell(px, r, (i \div 3) + 1, g)
         IN  IF i % 3 = 0 THEN BlueOf(p)
             ELSE IF i % 3 = 1 THEN GreenOf(p)
             ELSE RedOf(p)

RowLen(w, depth) == IF RowStride(w, depth) > 3 * w THEN RowStride(w, depth) ELSE 3 * w

\* Everything save writes: both headers as they are in memory, then the rows
\* from y = height - 1 down to 0.
Written(fh, ib, px, g) ==
    LET w == width(ib)
        h == height(ib)
        len == RowLen(w, color_depth_in_bits(ib))
    IN  fh \o ib \o
        [k \in 1..(len * h) |-> RowByte(px, w, h - ((k - 1) \div len), (k - 1) % len, g)]

\* What reaches the sink.  No stream state is ever tested by save.
Accepted(k, bytes) ==
    IF k = "good" THEN bytes
    ELSE IF k = "full" THEN SubSeq(bytes, 1, Min(SinkCapacity, Len(bytes)))
    ELSE <<>>

Save(k) ==
    /\ alive
    /\ calls < MaxCalls
    /\ calls' = calls + 1
    /\ lastOp' = "save"
    /\ sink' = k
    /\ UNCHANGED <<editor, src>>
    /\ IF SaveStrays(pixels, width(info_block), height(info_block))
       THEN \/ /\ Aborted
               /\ out' = <<>>
            \/ \E g \in Garbage :
                  /\ out' = Accepted(k, Written(file_header, info_block, pixels, g))
                  /\ result' = "ok"
                  /\ UNCHANGED alive
       ELSE /\ out' = Accepted(k, Written(file_header, info_block, pixels, 0))
            /\ result' = "ok"
            /\ UNCHANGED alive

----------------------------------------------------------------------------

Next ==
    \/ \E s \in Sources : Read(s)
    \/ ReadSaved
    \/ \E c \in Colors : DrawCross(c[1], c[2], c[3])
    \/ \E k \in Sinks : Save(k)

Spec == Init /\ [][Next]_vars

----------------------------------------------------------------------------
(* What the properties say about sources and steps *)

SrcOffset(s) == U32(s.bytes, 10)

SrcWidth(s) == U32(s.bytes, 18)

SrcHeight(s) == U32(s.bytes, 22)

SrcDepth(s) == U16(s.bytes, 28)

SrcCompression(s) == U32(s.bytes, 30)

HasBothHeaders(s) == s.exists /\ Len(s.bytes) >= 54

HasSignature(s) == s.bytes[1] = 66 /\ s.bytes[2] = 77

\* Signature, depth and compression as the format demands.
ValidHeaders(s) ==
    /\ HasBothHeaders(s)
    /\ HasSignature(s)
    /\ SrcDepth(s) = 24
    /\ SrcCompression(s) = 0

\* Position (0-based) in the source of the first byte of pixel x of disk row d.
TriplePos(s, d, x) == SrcOffset(s) + d * DiskStride(SrcWidth(s)) + 3 * x

\* The last pixel triple the headers promise lies inside the source.
AllTriplesPresent(s) ==
    \/ SrcWidth(s) = 0
    \/ SrcHeight(s) = 0
    \/ TriplePos(s, SrcHeight(s) - 1, SrcWidth(s) - 1) + 3 <= Len(s.bytes)

PixelSection(s) ==
    SubSeq(s.bytes, SrcOffset(s) + 1, SrcOffset(s) + DiskStride(SrcWidth(s)) * SrcHeight(s))

\* Valid headers, pixel data past both headers and complete, padding zero.
WellFormed(s) ==
    /\ ValidHeaders(s)
    /\ SrcOffset(s) >= 54
    /\ Len(s.bytes) >= SrcOffset(s) + DiskStride(SrcWidth(s)) * SrcHeight(s)
    /\ \A k \in 1..Len(PixelSection(s)) :
          (k - 1) % DiskStride(SrcWidth(s)) >= 3 * SrcWidth(s) => PixelSection(s)[k] = 0

\* The exceptions read can end with.
ReadFailures == {"IoOpenError", "ReadError", "NotABmpFile", "UnsupportedColorDepth"}

\* The step is a call of the method op.
Calls(op) == calls' = calls + 1 /\ lastOp' = op

----------------------------------------------------------------------------
(* C1 *)

\* C1: a successful read of a well-formed source followed at once by save
\* into a sink that takes every byte leaves an output whose first 54 bytes
\* (file header and info block) are the source's and whose bytes after them
\* are the source's pixel data section, padding included.
RoundTripIdentity ==
    [][(/\ lastOp = "read"
        /\ result = "ok"
        /\ WellFormed(src)
        /\ Calls("save")
        /\ sink' = "good")
       => (/\ Len(out') >= 54
           /\ SubSeq(out', 1, 54) = SubSeq(src.bytes, 1, 54)
           /\ SubSeq(out', 55, Len(out')) = PixelSection(src))]_vars

----------------------------------------------------------------------------
(* C2 *)

\* C2: once a well-formed source was read (its declared offset may exceed
\* 54) and any number of drawCross calls were made, save into a sink that
\* takes every byte followed by read of the saved output succeeds and yields
\* the grid that was saved.
EncodeDecodePreservesGrid ==
    [][(/\ lastOp = "save"
        /\ result = "ok"
        /\ sink = "good"
        /\ WellFormed(src)
        /\ Calls("read")
        /\ src' = File(out))
       => (result' = "ok" /\ pixels' = pixels)]_vars

----------------------------------------------------------------------------
(* C3 *)

\* C3: after a successful read, for every disk row d and column x whose
\* triple the source supplies, grid cell [h-1-d][x] exists and holds
\* (blue << 16) | (green << 8) | red of that triple.
OrientationAndPacking ==
    (lastOp = "read" /\ result = "ok") =>
        \A d \in 0..(height(info_block) - 1) : \A x \in 0..(width(info_block) - 1) :
            TriplePos(src, d, x) + 3 <= Len(src.bytes) =>
                LET r == height(info_block) - d
                    pos == TriplePos(src, d, x)
                IN  /\ r <= Len(pixels)
                    /\ x + 1 <= Len(pixels[r])
                    /\ pixels[r][x + 1] = src.bytes[pos + 1] * 65536
                                          + src.bytes[pos + 2] * 256
                                          + src.bytes[pos + 3]

----------------------------------------------------------------------------
(* C4 *)

\* C4: a read that ends with an exception leaves file header, info block,
\* pixel grid and loaded flag as they were before the call; stated here for
\* the case the claim singles out, an editor that holds a loaded image.
DecodeFailureAtomic ==
    [][(fileWasRead /\ Calls("read") /\ result' \in ReadFailures)
       => UNCHANGED <<file_header, info_block, pixels, fileWasRead>>]_vars

----------------------------------------------------------------------------
(* C5 *)

\* C5: whenever the loaded flag is set, the grid has info_block.height rows
\* of info_block.width cells each.
GridDimensionInvariant ==
    (fileWasRead /\ alive) =>
        /\ Len(pixels) = height(info_block)
        /\ \A r \in 1..Len(pixels) : Len(pixels[r]) = width(info_block)

----------------------------------------------------------------------------
(* C6 *)

\* C6: read of a source with valid headers that ends before the last pixel
\* triple ends with an exception.
TruncatedPixelDataRejected ==
    (lastOp = "read" /\ ValidHeaders(src) /\ ~AllTriplesPresent(src)) =>
        result \in ReadFailures

----------------------------------------------------------------------------
(* C7 *)

\* C7: read of a source with the signature, depth 24 and a compression type
\* other than 0 ends with an exception.
CompressedRejected ==
    (/\ lastOp = "read"
     /\ HasBothHeaders(src)
     /\ HasSignature(src)
     /\ SrcDepth(src) = 24
     /\ SrcCompression(src) # 0) =>
        result \in ReadFailures

----------------------------------------------------------------------------
(* C8 *)

\* C8 as stated: read of a source that supplies 14 bytes of file header
\* without the signature ends with NotABmpFile, whatever follows.
WrongMagicRejected ==
    (/\ lastOp = "read"
     /\ src.exists
     /\ Len(src.bytes) >= 14
     /\ ~HasSignature(src)) =>
        result = "NotABmpFile"

\* C8 amended: read of a source that supplies both headers (54 bytes), the
\* file header without the signature, ends with NotABmpFile.
WrongMagicRejectedAfterBothHeaders ==
    (/\ lastOp = "read"
     /\ HasBothHeaders(src)
     /\ ~HasSignature(src)) =>
        result = "NotABmpFile"

\* A loaded editor has just refused a complete source without the signature.
WrongMagicRefusedSeen ==
    /\ lastOp = "read"
    /\ HasBothHeaders(src)
    /\ ~HasSignature(src)
    /\ result = "NotABmpFile"
    /\ fileWasRead

----------------------------------------------------------------------------
(* C9 *)

\* C9: drawCross or save called while no read has succeeded ends with the
\* precondition exception, changes nothing in the editor, and save leaves
\* nothing in its sink.
DecodeBeforeUse ==
    [][(~fileWasRead /\ (Calls("drawCross") \/ Calls("save")))
       => (/\ result' = "InvalidState"
           /\ UNCHANGED <<file_header, info_block, pixels, fileWasRead>>
           /\ (lastOp' = "save" => out' = <<>>))]_vars

----------------------------------------------------------------------------
(* C10 *)

\* Bytes a complete output holds: 54 + stride * height.
FullLength(ib) == 54 + ((3 * width(ib) + 3) \div 4) * 4 * height(ib)

\* C10: save (of a loaded image) never returns normally with fewer than
\* 54 + stride * height bytes in the sink, and when the sink held bytes back
\* it ends with IoOpenError or IoWriteError.
SinkFailureReported ==
    (lastOp = "save" /\ fileWasRead) =>
        /\ result = "ok" => Len(out) >= FullLength(info_block)
        /\ (sink # "good" /\ Len(out) < FullLength(info_block)) =>
               result \in {"IoOpenError", "IoWriteError"}

====
